---- MODULE Spec2Model ----
(***************************************************************************)
(* ReviewMate backend: the automation runner (eligibility filter, reply    *)
(* generation, reply publishing, run report), the save-and-run handlers    *)
(* and the bulk (cron) run, as implemented by the four server programs of  *)
(* the repository:                                                         *)
(*   "S1"  src/server.js lines 1-217                                       *)
(*   "S2"  src/server.js lines 219-542                                     *)
(*   "P0"  src/unnamed/part_000 lines 182-414                              *)
(*   "P1"  src/unnamed/part_001                                            *)
(* The variable ver fixes which program a behaviour is a behaviour of.     *)
(* Every await of the code is a step boundary; the external collaborators  *)
(* (Review Source, Reply Generator, Reply Publisher) answer or throw       *)
(* nondeterministically.  Time is counted in hours.  In Spec and SpecElig   *)
(* requests are served one at a time; SpecOverlap lets the runs of S2      *)
(* overlap, SpecCred interleaves the invocations that use the OAuth        *)
(* client, SpecLogin the login callbacks, and SpecNorm applies             *)
(* normalizeSettings alone.                                                *)
(***************************************************************************)
EXTENDS Integers, Sequences, FiniteSets, TLC

VARIABLES ver, now, ticks, quota, db, store, req, run, prev, cron, resp,
          other, client, listeners, tokens, procs, calls, records, logins,
          norm

\* the shared OAuth client, the stored tokens and the invocations that use them
\* and the User records and the login callbacks that write them
authVars == <<client, listeners, tokens, procs, calls, records, logins>>

vars == <<ver, now, ticks, quota, db, store, req, run, prev, cron, resp,
          other, authVars, norm>>

(* ------------------------------ bounds --------------------------------- *)

\* requests (save-and-run or cron) served in one behaviour
MaxRequests == 2
\* requests served in one behaviour of the eligibility specification
MaxEligRequests == 1
\* hours that may pass between requests
MaxTicks == 1
\* the instant of the first request, in hours
Now0 == 1000
\* invocations a user starts in SpecCred
MaxInvocations == 2
\* refreshes of one token in SpecCred
MaxRefresh == 1
\* the length of the lists handed to normalizeSettings in SpecNorm
MaxLen == 2
\* callbacks served one after another in one place in SpecLogin
MaxLogins == 2

(* ------------------------------ data ----------------------------------- *)

Versions == {"S1", "S2", "P0", "P1"}

\* stored users, in the order User.find returns them, and an id no user has
UserOrder == <<"u1", "u2">>
Users == {"u1", "u2"}
Ghost == "u0"
Uids == Users \cup {Ghost}

Locations == {"locA", "locB"}

\* 1000 * 60 * 60 * 24 ms, in hours
HoursPerDay == 24

NoRid == "-"

Range(s) == {s[i] : i \in DOMAIN s}

\* String.prototype.trim on the texts and tones of the model
trim(t) ==
    CASE t = "  " -> ""
      [] t = " warm " -> "warm"
      [] OTHER -> t

(* ----------------------- settings and reviews -------------------------- *)

\* an automationSettings entry; locationId is the field called name in P0, P1
Setting(l, e, tf, sc, tn) ==
    [locationId |-> l, isEnabled |-> e, timeFilter |-> tf, replyScope |-> sc,
     tone |-> tn]

\* a review of the Review Source; hasReply is the presence of reviewReply
Review(id, ct, rep) == [id |-> id, createTime |-> ct, hasReply |-> rep]

DefaultTone == "polite and professional"

\* the value null passed where a list is expected: no sequence
JNull == [i \in {0} |-> "null"]

\* an entry of a submitted list that is null: it has no property
NullEntry == [null |-> TRUE]

\* settings || []
orEmpty(settings) == IF 0 \in DOMAIN settings THEN <<>> ELSE settings

\* setting && setting.locationId
hasLocationId(setting) ==
    /\ "null" \notin DOMAIN setting
    /\ "locationId" \in DOMAIN setting
    /\ setting.locationId # ""

\* normalizeSettings without the trim of a tone it keeps
normalizeSettings_RawTone(settings) ==
    LET allowedTime == {"7days", "14days", "30days", "all"}
        allowedScope == {"unreplied_only", "rewrite_all"}
        kept == SelectSeq(orEmpty(settings), hasLocationId)
        has(i, f) == f \in DOMAIN kept[i]
    IN [i \in DOMAIN kept |->
          [locationId |-> kept[i].locationId,
           timeFilter |-> IF has(i, "timeFilter")
                             /\ kept[i].timeFilter \in allowedTime
                          THEN kept[i].timeFilter ELSE "7days",
           replyScope |-> IF has(i, "replyScope")
                             /\ kept[i].replyScope \in allowedScope
                          THEN kept[i].replyScope ELSE "unreplied_only",
           tone |-> IF has(i, "tone") /\ trim(kept[i].tone) # ""
                    THEN kept[i].tone ELSE DefaultTone,
           isEnabled |-> has(i, "isEnabled") /\ kept[i].isEnabled]]

\* S2: the save path's normalisation of a submitted list; a property the
\* entry does not have reads as undefined
normalizeSettings(settings) ==
    LET allowedTime == {"7days", "14days", "30days", "all"}
        allowedScope == {"unreplied_only", "rewrite_all"}
        kept == SelectSeq(orEmpty(settings), hasLocationId)
        has(i, f) == f \in DOMAIN kept[i]
    IN [i \in DOMAIN kept |->
          [locationId |-> kept[i].locationId,
           timeFilter |-> IF has(i, "timeFilter")
                             /\ kept[i].timeFilter \in allowedTime
                          THEN kept[i].timeFilter ELSE "7days",
           replyScope |-> IF has(i, "replyScope")
                             /\ kept[i].replyScope \in allowedScope
                          THEN kept[i].replyScope ELSE "unreplied_only",
           tone |-> IF has(i, "tone") /\ trim(kept[i].tone) # ""
                    THEN trim(kept[i].tone) ELSE DefaultTone,
           isEnabled |-> has(i, "isEnabled") /\ kept[i].isEnabled]]

(* -------------------------- eligibility filter ------------------------- *)

\* limit with 30 days for every unbounded time filter
limit_AllIs30(timeFilter) ==
    IF timeFilter = "14days" THEN 14
    ELSE IF timeFilter = "7days" THEN 7
    ELSE 30

\* P0: the day limit of a time filter
limit(timeFilter) ==
    IF timeFilter = "30days" THEN 30
    ELSE IF timeFilter = "14days" THEN 14
    ELSE IF timeFilter = "7days" THEN 7
    ELSE 9999

\* tooOld_P0 with the comparison daysDiff >= limit
tooOld_P0_AtLimit(review, setting, t) ==
    (t - review.createTime) >= limit(setting.timeFilter) * HoursPerDay

\* P0: daysDiff > limit, daysDiff = (now - createTime) / one day, undivided
tooOld_P0(review, setting, t) ==
    (t - review.createTime) > limit(setting.timeFilter) * HoursPerDay

\* scopeSkip_P0 with the reply check left out
scopeSkip_P0_Off(review, setting) == FALSE

\* P0: the scope check
scopeSkip_P0(review, setting) ==
    setting.replyScope = "unreplied_only" /\ review.hasReply

NaN == -1

\* S2: Number.parseInt(timeFilter.replace("days", ""), 10) on the model's values
parseDays(timeFilter) ==
    CASE timeFilter = "7days" -> 7
      [] timeFilter = "14days" -> 14
      [] timeFilter = "30days" -> 30
      [] OTHER -> NaN

\* S2: the cutoff instant of a time filter, {} for null
getCutoffDate(timeFilter, t) ==
    IF timeFilter = "all" THEN {}
    ELSE IF parseDays(timeFilter) = NaN THEN {}
    ELSE {t - parseDays(timeFilter) * HoursPerDay}

\* S2: cutoffDate && createdTime && createdTime < cutoffDate
tooOld_S2(review, setting, t) ==
    \E cutoffDate \in getCutoffDate(setting.timeFilter, t) :
        review.createTime < cutoffDate

\* S2: the scope check
scopeSkip_S2(review, setting) ==
    setting.replyScope = "unreplied_only" /\ review.hasReply

\* scopeSkip_S1 with the scope spelled as the other programs spell it
scopeSkip_S1_Spelling(review, setting) ==
    setting.replyScope = "unreplied_only" /\ review.hasReply

\* S1: the scope check; S1 has no time filter
scopeSkip_S1(review, setting) ==
    setting.replyScope = "Unreplied Only" /\ review.hasReply

\* P1: only reviews without a reply are answered, whatever the setting
scopeSkip_P1(review, setting) == review.hasReply

(* ------------------------------ the run -------------------------------- *)

NoRun ==
    [user |-> Ghost, list |-> <<>>, si |-> 0, page |-> <<>>, ri |-> 0,
     text |-> "", trace |-> <<>>, report |-> <<>>, pc |-> "none",
     status |-> "none"]

NewRun(u, list) == [NoRun EXCEPT !.user = u, !.list = list]

CurSetting(r) == r.list[r.si]
CurReview(r) == r.page[r.ri]

\* what the run did: an external call and its outcome, or a skipped review
SettingEv(r, op, out) ==
    [op |-> op, si |-> r.si, loc |-> CurSetting(r).locationId, rid |-> NoRid,
     tf |-> CurSetting(r).timeFilter, scope |-> CurSetting(r).replyScope,
     age |-> 0, hadReply |-> FALSE, out |-> out]

ReviewEv(r, op, out) ==
    [op |-> op, si |-> r.si, loc |-> CurSetting(r).locationId,
     rid |-> CurReview(r).id,
     tf |-> CurSetting(r).timeFilter, scope |-> CurSetting(r).replyScope,
     age |-> now - CurReview(r).createTime,
     hadReply |-> CurReview(r).hasReply, out |-> out]

Log(r, e) == [r EXCEPT !.trace = Append(@, e)]

\* the index of the first enabled setting after index i, 0 if there is none
NextEnabled(list, i) ==
    LET later == {j \in DOMAIN list : j > i /\ list[j].isEnabled}
    IN IF later = {} THEN 0
       ELSE CHOOSE j \in later : \A k \in later : j <= k

\* the settings loop moves on: the fetch of the next enabled setting is
\* issued, or the loop ends and the run returns
EnterSetting(r) ==
    LET j == NextEnabled(r.list, r.si)
    IN IF j = 0
       THEN [r EXCEPT !.si = Len(r.list) + 1, !.page = <<>>, !.ri = 0,
                      !.text = "", !.pc = "end", !.status = "done"]
       ELSE [r EXCEPT !.si = j, !.page = <<>>, !.ri = 0, !.text = "",
                      !.pc = "fetch"]

\* an exception leaves the run function
Abort(r) == [r EXCEPT !.pc = "end", !.status = "aborted"]

\* the Review Source's page for a location
FetchPage(loc) == IF loc \in DOMAIN store THEN store[loc] ELSE <<>>

\* the Reply Publisher attaches the reply to the review
MarkReplied(st, rid) ==
    [l \in DOMAIN st |->
       [i \in DOMAIN st[l] |->
          IF st[l][i].id = rid THEN [st[l][i] EXCEPT !.hasReply = TRUE]
          ELSE st[l][i]]]

\* the Reply Generator's answers: texts, or an exception
GenTexts == {"Thanks!", "  "}
Throw == "throw"

GenOut(text) == IF trim(text) = "" THEN "empty" ELSE "ok"

\* TRUE iff every external call of run r answered, with a non-empty text
Clean(r) ==
    \A i \in DOMAIN r.trace : r.trace[i].out \notin {"throw", "empty"}

\* the reviews run r published a reply to
Published(r) ==
    {r.trace[i].rid : i \in {j \in DOMAIN r.trace :
                                r.trace[j].op = "pub" /\ r.trace[j].out = "ok"}}

NoPrev == [rel |-> "none", pubs |-> {}]

\* how a run for user u over list relates to the run before it: "clean" or
\* "dirty" if that run was for the same user over the same list, "none" if
\* not; with the reviews that run published to
RunAfter(u, list) ==
    IF run.pc = "end" /\ run.user = u /\ run.list = list
    THEN [rel |-> IF run.status = "done" /\ Clean(run) THEN "clean" ELSE "dirty",
          pubs |-> Published(run)]
    ELSE NoPrev

NoResp == [code |-> 0, body |-> "none", report |-> <<>>, count |-> -1]

Idle == ~req.open /\ run.pc \in {"none", "end"}

HasEnabled(list) == \E i \in DOMAIN list : list[i].isEnabled

SaveReq(uid, body, open, unhandled) ==
    [kind |-> "save", uid |-> uid, body |-> body, open |-> open,
     unhandled |-> unhandled]

CronReq(open, unhandled) ==
    [kind |-> "cron", uid |-> Ghost, body |-> <<>>, open |-> open,
     unhandled |-> unhandled]

Entry(r, details) ==
    [loc |-> CurSetting(r).locationId, rid |-> CurReview(r).id,
     details |-> details]

NoCron == [queue |-> <<>>, invoked |-> <<>>, count |-> 0, status |-> "none"]

RECURSIVE DropWhileNotIn(_, _)
\* the users loop passes over the users outside S
DropWhileNotIn(q, S) ==
    IF q = <<>> THEN q
    ELSE IF Head(q) \in S THEN q
    ELSE DropWhileNotIn(Tail(q), S)

\* the users loop of a cron handler, at queue rest: the run of the next
\* user is started, or the loop is over and the handler answers doneResp
CronStep(rest, invoked, count, doneResp) ==
    IF rest = <<>>
    THEN [cron |-> [queue |-> <<>>, invoked |-> invoked, count |-> count,
                    status |-> "done"],
          run |-> run, prev |-> prev, resp |-> doneResp, open |-> FALSE]
    ELSE [cron |-> [queue |-> Tail(rest),
                    invoked |-> Append(invoked, Head(rest)),
                    count |-> count, status |-> "active"],
          run |-> EnterSetting(NewRun(Head(rest), db[Head(rest)])),
          prev |-> RunAfter(Head(rest), db[Head(rest)]),
          resp |-> NoResp, open |-> TRUE]

(* ------------------- P0: src/unnamed/part_000 -------------------------- *)

RECURSIVE Scan_P0(_)
\* the review loop from review r.ri on, up to the next generateContent call
Scan_P0(r) ==
    IF r.ri > Len(r.page) THEN EnterSetting(r)
    ELSE IF tooOld_P0(CurReview(r), CurSetting(r), now)
         THEN Scan_P0([Log(r, ReviewEv(r, "skip", "old")) EXCEPT !.ri = @ + 1])
    ELSE IF scopeSkip_P0(CurReview(r), CurSetting(r))
         THEN Scan_P0([Log(r, ReviewEv(r, "skip", "replied")) EXCEPT !.ri = @ + 1])
    ELSE [r EXCEPT !.pc = "gen"]

\* reviews.list answers or throws; the location's catch ends the location
Fetch_P0 ==
    /\ ver = "P0" /\ run.pc = "fetch"
    /\ \E ok \in BOOLEAN :
         run' = IF ok
                THEN Scan_P0([Log(run, SettingEv(run, "fetch", "ok")) EXCEPT
                                !.page = FetchPage(CurSetting(run).locationId),
                                !.ri = 1])
                ELSE EnterSetting(Log(run, SettingEv(run, "fetch", Throw)))
    /\ UNCHANGED <<authVars, norm, other, ver, now, ticks, quota, db, store, req, prev, cron, resp>>

\* generateContent answers or throws; the text goes to updateReply as it is
Generate_P0 ==
    /\ ver = "P0" /\ run.pc = "gen"
    /\ \E out \in GenTexts \cup {Throw} :
         run' = IF out = Throw
                THEN EnterSetting(Log(run, ReviewEv(run, "gen", Throw)))
                ELSE [Log(run, ReviewEv(run, "gen", GenOut(out))) EXCEPT
                        !.text = out, !.pc = "publish"]
    /\ UNCHANGED <<authVars, norm, other, ver, now, ticks, quota, db, store, req, prev, cron, resp>>

\* updateReply answers or throws; a published reply is reported
Publish_P0 ==
    /\ ver = "P0" /\ run.pc = "publish"
    /\ \E ok \in BOOLEAN :
         IF ok
         THEN /\ store' = MarkReplied(store, CurReview(run).id)
              /\ run' = Scan_P0([Log(run, ReviewEv(run, "pub", "ok")) EXCEPT
                    !.report = Append(@, Entry(run,
                        IF CurReview(run).hasReply
                        THEN "Updated existing reply" ELSE "New reply")),
                    !.ri = @ + 1])
         ELSE /\ store' = store
              /\ run' = EnterSetting(Log(run, ReviewEv(run, "pub", Throw)))
    /\ UNCHANGED <<authVars, norm, other, ver, now, ticks, quota, db, req, prev, cron, resp>>

\* POST /api/save-and-run up to the first await of the run
saveAndRun_P0(googleId, selectedLocations) ==
    /\ ver = "P0" /\ Idle /\ quota > 0
    /\ quota' = quota - 1
    /\ IF googleId \notin Users
       THEN /\ req' = SaveReq(googleId, selectedLocations, FALSE, FALSE)
            /\ resp' = [NoResp EXCEPT !.code = 401, !.body = "error"]
            /\ UNCHANGED <<db, run, prev>>
       ELSE /\ req' = SaveReq(googleId, selectedLocations, TRUE, FALSE)
            /\ db' = [db EXCEPT ![googleId] = selectedLocations]
            /\ prev' = RunAfter(googleId, selectedLocations)
            /\ run' = EnterSetting(NewRun(googleId, selectedLocations))
            /\ resp' = NoResp
    /\ UNCHANGED <<authVars, norm, other, ver, now, ticks, store, cron>>

\* POST /api/save-and-run after the run returned its report
saveAndRun_P0_resume ==
    /\ ver = "P0" /\ req.open /\ req.kind = "save" /\ run.pc = "end"
    /\ req' = [req EXCEPT !.open = FALSE]
    /\ resp' = IF run.status = "done"
               THEN [code |-> 200, body |-> "report", report |-> run.report,
                     count |-> -1]
               ELSE [NoResp EXCEPT !.code = 500, !.body = "error"]
    /\ UNCHANGED <<authVars, norm, other, ver, now, ticks, quota, db, store, run, prev, cron>>

\* P0: the users the cron loop runs
cronUsers_P0 == {u \in Users : HasEnabled(db[u])}

\* P0: the cron answer, with the count of users processed
cronResp_P0(count) ==
    [code |-> 200, body |-> "text", report |-> <<>>, count |-> count]

\* GET /api/global-cron-run up to the first await of the first run
cron_P0 ==
    /\ ver = "P0" /\ Idle /\ quota > 0
    /\ quota' = quota - 1
    /\ LET n == CronStep(DropWhileNotIn(UserOrder, cronUsers_P0), <<>>, 0,
                         cronResp_P0(0))
       IN /\ cron' = n.cron /\ run' = n.run /\ prev' = n.prev
          /\ resp' = n.resp /\ req' = CronReq(n.open, FALSE)
    /\ UNCHANGED <<authVars, norm, other, ver, now, ticks, db, store>>

\* GET /api/global-cron-run after a user's run returned
cron_P0_resume ==
    /\ ver = "P0" /\ req.open /\ req.kind = "cron" /\ run.pc = "end"
    /\ LET n == CronStep(DropWhileNotIn(cron.queue, cronUsers_P0),
                         cron.invoked, cron.count + 1,
                         cronResp_P0(cron.count + 1))
       IN /\ cron' = n.cron /\ run' = n.run /\ prev' = n.prev
          /\ resp' = n.resp /\ req' = CronReq(n.open, FALSE)
    /\ UNCHANGED <<authVars, norm, other, ver, now, ticks, quota, db, store>>

(* ------------------- S1: src/server.js, first program ------------------ *)

RECURSIVE Scan_S1(_)
\* the review loop from review r.ri on, up to the next generateContent call
Scan_S1(r) ==
    IF r.ri > Len(r.page) THEN EnterSetting(r)
    ELSE IF scopeSkip_S1(CurReview(r), CurSetting(r))
         THEN Scan_S1([Log(r, ReviewEv(r, "skip", "replied")) EXCEPT !.ri = @ + 1])
    ELSE [r EXCEPT !.pc = "gen"]

\* reviews.list answers or throws; nothing catches
Fetch_S1 ==
    /\ ver = "S1" /\ run.pc = "fetch"
    /\ \E ok \in BOOLEAN :
         run' = IF ok
                THEN Scan_S1([Log(run, SettingEv(run, "fetch", "ok")) EXCEPT
                                !.page = FetchPage(CurSetting(run).locationId),
                                !.ri = 1])
                ELSE Abort(Log(run, SettingEv(run, "fetch", Throw)))
    /\ UNCHANGED <<authVars, norm, other, ver, now, ticks, quota, db, store, req, prev, cron, resp>>

\* generateContent answers or throws; the text goes to updateReply as it is
Generate_S1 ==
    /\ ver = "S1" /\ run.pc = "gen"
    /\ \E out \in GenTexts \cup {Throw} :
         run' = IF out = Throw
                THEN Abort(Log(run, ReviewEv(run, "gen", Throw)))
                ELSE [Log(run, ReviewEv(run, "gen", GenOut(out))) EXCEPT
                        !.text = out, !.pc = "publish"]
    /\ UNCHANGED <<authVars, norm, other, ver, now, ticks, quota, db, store, req, prev, cron, resp>>

\* updateReply answers or throws; a published reply is pushed to logs
Publish_S1 ==
    /\ ver = "S1" /\ run.pc = "publish"
    /\ \E ok \in BOOLEAN :
         IF ok
         THEN /\ store' = MarkReplied(store, CurReview(run).id)
              /\ run' = Scan_S1([Log(run, ReviewEv(run, "pub", "ok")) EXCEPT
                    !.report = Append(@, Entry(run, "Replied")),
                    !.ri = @ + 1])
         ELSE /\ store' = store
              /\ run' = Abort(Log(run, ReviewEv(run, "pub", Throw)))
    /\ UNCHANGED <<authVars, norm, other, ver, now, ticks, quota, db, req, prev, cron, resp>>

\* POST /api/save-and-run up to the first await of the run; for an unknown
\* googleId the assignment to user.automationSettings throws on null
saveAndRun_S1(googleId, settings) ==
    /\ ver = "S1" /\ Idle /\ quota > 0
    /\ quota' = quota - 1
    /\ IF googleId \notin Users
       THEN /\ req' = SaveReq(googleId, settings, FALSE, TRUE)
            /\ resp' = NoResp
            /\ UNCHANGED <<db, run, prev>>
       ELSE /\ req' = SaveReq(googleId, settings, TRUE, FALSE)
            /\ db' = [db EXCEPT ![googleId] = settings]
            /\ prev' = RunAfter(googleId, settings)
            /\ run' = EnterSetting(NewRun(googleId, settings))
            /\ resp' = NoResp
    /\ UNCHANGED <<authVars, norm, other, ver, now, ticks, store, cron>>

\* POST /api/save-and-run after the run returned or threw
saveAndRun_S1_resume ==
    /\ ver = "S1" /\ req.open /\ req.kind = "save" /\ run.pc = "end"
    /\ IF run.status = "done"
       THEN /\ req' = [req EXCEPT !.open = FALSE]
            /\ resp' = [code |-> 200, body |-> "report",
                        report |-> run.report, count |-> -1]
       ELSE /\ req' = [req EXCEPT !.open = FALSE, !.unhandled = TRUE]
            /\ resp' = NoResp
    /\ UNCHANGED <<authVars, norm, other, ver, now, ticks, quota, db, store, run, prev, cron>>

\* S1: the users the cron loop runs: automationSettings?.length
cronUsers_S1 == {u \in Users : Len(db[u]) > 0}

\* S1: the cron answer
cronResp_S1 == [code |-> 200, body |-> "text", report |-> <<>>, count |-> -1]

\* GET /api/global-cron-run up to the first await of the first run
cron_S1 ==
    /\ ver = "S1" /\ Idle /\ quota > 0
    /\ quota' = quota - 1
    /\ LET n == CronStep(DropWhileNotIn(UserOrder, cronUsers_S1), <<>>, 0,
                         cronResp_S1)
       IN /\ cron' = n.cron /\ run' = n.run /\ prev' = n.prev
          /\ resp' = n.resp /\ req' = CronReq(n.open, FALSE)
    /\ UNCHANGED <<authVars, norm, other, ver, now, ticks, db, store>>

\* GET /api/global-cron-run after a user's run returned or threw
cron_S1_resume ==
    /\ ver = "S1" /\ req.open /\ req.kind = "cron" /\ run.pc = "end"
    /\ IF run.status = "done"
       THEN LET n == CronStep(DropWhileNotIn(cron.queue, cronUsers_S1),
                              cron.invoked, cron.count, cronResp_S1)
            IN /\ cron' = n.cron /\ run' = n.run /\ prev' = n.prev
               /\ resp' = n.resp /\ req' = CronReq(n.open, FALSE)
       ELSE /\ cron' = [cron EXCEPT !.status = "crashed"]
            /\ req' = CronReq(FALSE, TRUE)
            /\ resp' = NoResp
            /\ UNCHANGED <<run, prev>>
    /\ UNCHANGED <<authVars, norm, other, ver, now, ticks, quota, db, store>>

(* ------------------- S2: src/server.js, second program ----------------- *)

RECURSIVE Scan_S2(_)
\* the review loop from review r.ri on, up to the next generateContent call
Scan_S2(r) ==
    IF r.ri > Len(r.page) THEN EnterSetting(r)
    ELSE IF tooOld_S2(CurReview(r), CurSetting(r), now)
         THEN Scan_S2([Log(r, ReviewEv(r, "skip", "old")) EXCEPT !.ri = @ + 1])
    ELSE IF scopeSkip_S2(CurReview(r), CurSetting(r))
         THEN Scan_S2([Log(r, ReviewEv(r, "skip", "replied")) EXCEPT !.ri = @ + 1])
    ELSE [r EXCEPT !.pc = "gen"]

\* a run started by save-and-run is awaited by nobody: its exception is an
\* unhandled rejection
Rejected_S2(r) ==
    IF r.status = "aborted" /\ req.kind = "save"
    THEN [req EXCEPT !.unhandled = TRUE] ELSE req

\* reviews.list answers or throws; nothing catches
Fetch_S2 ==
    /\ ver = "S2" /\ run.pc = "fetch"
    /\ \E ok \in BOOLEAN :
         run' = IF ok
                THEN Scan_S2([Log(run, SettingEv(run, "fetch", "ok")) EXCEPT
                                !.page = FetchPage(CurSetting(run).locationId),
                                !.ri = 1])
                ELSE Abort(Log(run, SettingEv(run, "fetch", Throw)))
    /\ req' = Rejected_S2(run')
    /\ UNCHANGED <<authVars, norm, other, ver, now, ticks, quota, db, store, prev, cron, resp>>

\* generateContent answers or throws; a reply empty after trim is skipped
Generate_S2 ==
    /\ ver = "S2" /\ run.pc = "gen"
    /\ \E out \in GenTexts \cup {Throw} :
         run' = IF out = Throw
                THEN Abort(Log(run, ReviewEv(run, "gen", Throw)))
                ELSE IF trim(out) = ""
                THEN Scan_S2([Log(run, ReviewEv(run, "gen", "empty")) EXCEPT
                                !.ri = @ + 1])
                ELSE [Log(run, ReviewEv(run, "gen", "ok")) EXCEPT
                        !.text = trim(out), !.pc = "publish"]
    /\ req' = Rejected_S2(run')
    /\ UNCHANGED <<authVars, norm, other, ver, now, ticks, quota, db, store, prev, cron, resp>>

\* updateReply answers or throws; the run keeps no report, it logs
Publish_S2 ==
    /\ ver = "S2" /\ run.pc = "publish"
    /\ \E ok \in BOOLEAN :
         IF ok
         THEN /\ store' = MarkReplied(store, CurReview(run).id)
              /\ run' = Scan_S2([Log(run, ReviewEv(run, "pub", "ok")) EXCEPT
                                   !.ri = @ + 1])
         ELSE /\ store' = store
              /\ run' = Abort(Log(run, ReviewEv(run, "pub", Throw)))
    /\ req' = Rejected_S2(run')
    /\ UNCHANGED <<authVars, norm, other, ver, now, ticks, quota, db, prev, cron, resp>>

\* POST /api/save-and-run: the run is started and not awaited, the answer
\* is sent at once
saveAndRun_S2(uid, settings) ==
    /\ ver = "S2" /\ Idle /\ quota > 0
    /\ quota' = quota - 1
    /\ req' = SaveReq(uid, settings, FALSE, FALSE)
    /\ IF uid \notin Users
       THEN /\ resp' = [NoResp EXCEPT !.code = 401, !.body = "error"]
            /\ UNCHANGED <<db, run, prev>>
       ELSE /\ db' = [db EXCEPT ![uid] = normalizeSettings(settings)]
            /\ prev' = RunAfter(uid, normalizeSettings(settings))
            /\ run' = EnterSetting(NewRun(uid, normalizeSettings(settings)))
            /\ resp' = [NoResp EXCEPT !.code = 200, !.body = "success"]
    /\ UNCHANGED <<authVars, norm, other, ver, now, ticks, store, cron>>

\* S2: the users the cron query finds: "automationSettings.isEnabled": true
cronUsers_S2 == {u \in Users : HasEnabled(db[u])}

\* S2: the cron answer
cronResp_S2 == [code |-> 200, body |-> "status", report |-> <<>>, count |-> -1]

\* GET /api/global-cron-run up to the first await of the first run
cron_S2 ==
    /\ ver = "S2" /\ Idle /\ quota > 0
    /\ quota' = quota - 1
    /\ LET n == CronStep(DropWhileNotIn(UserOrder, cronUsers_S2), <<>>, 0,
                         cronResp_S2)
       IN /\ cron' = n.cron /\ run' = n.run /\ prev' = n.prev
          /\ resp' = n.resp /\ req' = CronReq(n.open, FALSE)
    /\ UNCHANGED <<authVars, norm, other, ver, now, ticks, db, store>>

\* GET /api/global-cron-run after a user's run returned or threw
cron_S2_resume ==
    /\ ver = "S2" /\ req.open /\ req.kind = "cron" /\ run.pc = "end"
    /\ IF run.status = "done"
       THEN LET n == CronStep(DropWhileNotIn(cron.queue, cronUsers_S2),
                              cron.invoked, cron.count, cronResp_S2)
            IN /\ cron' = n.cron /\ run' = n.run /\ prev' = n.prev
               /\ resp' = n.resp /\ req' = CronReq(n.open, FALSE)
       ELSE /\ cron' = [cron EXCEPT !.status = "crashed"]
            /\ req' = CronReq(FALSE, TRUE)
            /\ resp' = NoResp
            /\ UNCHANGED <<run, prev>>
    /\ UNCHANGED <<authVars, norm, other, ver, now, ticks, quota, db, store>>

(* ------------------- P1: src/unnamed/part_001 -------------------------- *)

Undef == "<undefined>"

\* the User schema of P1 keeps tone and isEnabled of a submitted entry
cast_P1(selectedLocations) ==
    [i \in DOMAIN selectedLocations |->
       [selectedLocations[i] EXCEPT !.locationId = Undef,
                                    !.timeFilter = Undef,
                                    !.replyScope = Undef]]

RECURSIVE Scan_P1(_)
\* the review loop from review r.ri on, up to the next generateContent call
Scan_P1(r) ==
    IF r.ri > Len(r.page) THEN EnterSetting(r)
    ELSE IF scopeSkip_P1(CurReview(r), CurSetting(r))
         THEN Scan_P1([Log(r, ReviewEv(r, "skip", "replied")) EXCEPT !.ri = @ + 1])
    ELSE [r EXCEPT !.pc = "gen"]

\* the answer of the handler once its loop is over or has thrown
Answer_P1(r) ==
    IF r.pc # "end" THEN NoResp
    ELSE IF r.status = "done"
    THEN [code |-> 200, body |-> "report", report |-> r.report, count |-> -1]
    ELSE [NoResp EXCEPT !.code = 500, !.body = "error"]

\* reviews.list answers or throws into the handler's catch
Fetch_P1 ==
    /\ ver = "P1" /\ run.pc = "fetch"
    /\ \E ok \in BOOLEAN :
         run' = IF ok
                THEN Scan_P1([Log(run, SettingEv(run, "fetch", "ok")) EXCEPT
                                !.page = FetchPage(CurSetting(run).locationId),
                                !.ri = 1])
                ELSE Abort(Log(run, SettingEv(run, "fetch", Throw)))
    /\ resp' = Answer_P1(run')
    /\ req' = [req EXCEPT !.open = (run'.pc # "end")]
    /\ UNCHANGED <<authVars, norm, other, ver, now, ticks, quota, db, store, prev, cron>>

\* generateContent answers or throws; the text is reported, not published
Generate_P1 ==
    /\ ver = "P1" /\ run.pc = "gen"
    /\ \E out \in GenTexts \cup {Throw} :
         run' = IF out = Throw
                THEN Abort(Log(run, ReviewEv(run, "gen", Throw)))
                ELSE Scan_P1([Log(run, ReviewEv(run, "gen", GenOut(out))) EXCEPT
                                !.report = Append(@, Entry(run, "generated")),
                                !.ri = @ + 1])
    /\ resp' = Answer_P1(run')
    /\ req' = [req EXCEPT !.open = (run'.pc # "end")]
    /\ UNCHANGED <<authVars, norm, other, ver, now, ticks, quota, db, store, prev, cron>>

\* POST /api/process-automation up to the first await of its loop, which
\* runs over the submitted list
processAutomation_P1(googleId, selectedLocations) ==
    /\ ver = "P1" /\ Idle /\ quota > 0
    /\ quota' = quota - 1
    /\ IF googleId \notin Users
       THEN /\ req' = SaveReq(googleId, selectedLocations, FALSE, FALSE)
            /\ resp' = [NoResp EXCEPT !.code = 401, !.body = "error"]
            /\ UNCHANGED <<db, run, prev>>
       ELSE /\ db' = [db EXCEPT ![googleId] = cast_P1(selectedLocations)]
            /\ prev' = RunAfter(googleId, selectedLocations)
            /\ run' = EnterSetting(NewRun(googleId, selectedLocations))
            /\ resp' = Answer_P1(run')
            /\ req' = SaveReq(googleId, selectedLocations, run'.pc # "end",
                              FALSE)
    /\ UNCHANGED <<authVars, norm, other, ver, now, ticks, store, cron>>

\* S2: while a run waits for the answer of a call, the event loop serves
\* another request or resumes another run: the run in progress is set
\* aside and the one set aside, if any, is taken up
Yield ==
    /\ ver = "S2"
    /\ run.pc # "none" /\ ~(run.pc = "end" /\ other.pc \in {"none", "end"})
    /\ run' = other /\ other' = run
    /\ UNCHANGED <<authVars, norm, ver, now, ticks, quota, db, store, req,
                   prev, cron, resp>>

(* ---------------- credentials: the OAuth client and its tokens ---------- *)

\* the variables of the automation runs
runVars ==
    <<ver, now, ticks, quota, db, store, req, run, prev, cron, resp, other,
      norm>>

\* an access/refresh token pair: the account it was granted for, and how
\* many times it has been refreshed
Token(acct, gen) == [acct |-> acct, gen |-> gen]
NoToken == Token("none", 0)

\* the shared oauth2Client before any setCredentials
NoClient == [user |-> "none", token |-> NoToken]

\* an invocation of a user: runAutomation or GET /api/locations, the call
\* it is about to make, the credentials of its own client (S2), and the
\* number of invocations the user has started
NoProc == [kind |-> "none", pc |-> "idle", cred |-> NoToken, n |-> 0]

Kinds == {"run", "locations"}

\* the calls made with the OAuth client; generateContent is not one
GoogleCalls ==
    {"reviews.list", "updateReply", "accounts.list", "locations.list"}

\* the call that follows call pc in an invocation of program v
NextCall(v, pc) ==
    CASE pc = "reviews.list" -> "generateContent"
      [] pc = "generateContent" -> "updateReply"
      [] pc = "accounts.list" -> "locations.list"
      [] OTHER -> "done"

\* the first call of an invocation of program v
FirstCall(v, kind) ==
    IF kind = "run" THEN "reviews.list"
    ELSE IF v = "S1" THEN "accounts.list" ELSE "locations.list"

\* S1: getAuthClient(user), called first thing by runAutomation and by
\* GET /api/locations: the credentials of the one oauth2Client are set to
\* the user's and one more "tokens" listener, closed over the user, is added
getAuthClient(u, kind) ==
    /\ ver = "S1"
    /\ procs[u].pc \in {"idle", "done"} /\ procs[u].n < MaxInvocations
    /\ client' = [user |-> u, token |-> tokens[u]]
    /\ listeners' = Append(listeners, u)
    /\ procs' = [procs EXCEPT ![u] =
                    [kind |-> kind, pc |-> FirstCall("S1", kind),
                     cred |-> NoToken, n |-> @.n + 1]]
    /\ UNCHANGED <<tokens, calls, records, logins, runVars>>

\* S1: the next awaited call of the invocation of u, made through the one
\* oauth2Client with the credentials it holds when the call is made
call_S1(u) ==
    /\ ver = "S1" /\ procs[u].pc \notin {"idle", "done"}
    /\ calls' = IF procs[u].pc \in GoogleCalls
                THEN calls \cup {[by |-> u, api |-> procs[u].pc,
                                  token |-> client.token]}
                ELSE calls
    /\ procs' = [procs EXCEPT ![u].pc = NextCall("S1", @)]
    /\ UNCHANGED <<client, listeners, tokens, records, logins, runVars>>

\* S1: the client refreshes the access token it holds and emits "tokens":
\* every listener registered so far writes the new token to its own user
\* and saves it
tokensEvent ==
    /\ ver = "S1" /\ client.user # "none"
    /\ client.token.gen < MaxRefresh
    /\ \E u \in Users : procs[u].pc \in GoogleCalls
    /\ LET fresh == Token(client.token.acct, client.token.gen + 1)
       IN /\ client' = [client EXCEPT !.token = fresh]
          /\ tokens' = [u \in Users |->
                           IF u \in Range(listeners) THEN fresh ELSE tokens[u]]
    /\ UNCHANGED <<listeners, procs, calls, records, logins, runVars>>

\* S2: getGoogleClient(user): a client of its own for the invocation
getGoogleClient(u, kind) ==
    /\ ver = "S2"
    /\ procs[u].pc \in {"idle", "done"} /\ procs[u].n < MaxInvocations
    /\ procs' = [procs EXCEPT ![u] =
                    [kind |-> kind, pc |-> FirstCall("S2", kind),
                     cred |-> tokens[u], n |-> @.n + 1]]
    /\ UNCHANGED <<client, listeners, tokens, calls, records, logins, runVars>>

\* S2: the next awaited call of the invocation of u, with its own client
call_S2(u) ==
    /\ ver = "S2" /\ procs[u].pc \notin {"idle", "done"}
    /\ calls' = IF procs[u].pc \in GoogleCalls
                THEN calls \cup {[by |-> u, api |-> procs[u].pc,
                                  token |-> procs[u].cred]}
                ELSE calls
    /\ procs' = [procs EXCEPT ![u].pc = NextCall("S2", @)]
    /\ UNCHANGED <<client, listeners, tokens, records, logins, runVars>>

(* ------------------- login: the OAuth callbacks ------------------------- *)

\* the external accounts that log in, and the callbacks in flight
Accounts == {"g1", "g2"}
Logins == {"c1", "c2"}

\* a callback: where it is, the account id Google reported, the place in
\* the collection of the record findOne returned (0: null), and the number
\* of callbacks served in its place
NoLogin == [pc |-> "idle", gid |-> "none", found |-> 0, n |-> 0]

\* User.findOne({ googleId }): the first record with the id, 0 if none
findOne(gid) ==
    LET hits == {i \in DOMAIN records : records[i].googleId = gid}
    IN IF hits = {} THEN 0
       ELSE CHOOSE i \in hits : \A j \in hits : i <= j

\* the callback of a login with account gid, up to the answer of findOne
callback(c, gid) ==
    /\ ver \in {"S1", "S2", "P0"}
    /\ logins[c].pc \in {"idle", "done"} /\ logins[c].n < MaxLogins
    /\ logins' = [logins EXCEPT ![c] =
                     [pc |-> "write", gid |-> gid, found |-> findOne(gid),
                      n |-> @.n + 1]]
    /\ UNCHANGED <<client, listeners, tokens, procs, calls, records, runVars>>

\* the record the callback writes: a new one after findOne returned null
\* (User.create in S1 and S2, new User and save in P0), else the record
\* found, with the tokens of this login
callback_write(c) ==
    /\ logins[c].pc = "write"
    /\ records' =
          IF logins[c].found = 0
          THEN Append(records, [googleId |-> logins[c].gid, token |-> c])
          ELSE [records EXCEPT ![logins[c].found].token = c]
    /\ logins' = [logins EXCEPT ![c].pc = "done"]
    /\ UNCHANGED <<client, listeners, tokens, procs, calls, runVars>>

(* ------------- the save path's normalisation, taken alone --------------- *)

\* a list handed to normalizeSettings, its result, and the result of
\* normalizeSettings on that result
NoNorm == [pc |-> "none", input |-> <<>>, out |-> <<>>, again |-> <<>>]

\* normalizeSettings(settings) is called
normalize ==
    /\ norm.pc = "in"
    /\ norm' = [norm EXCEPT !.pc = "out", !.out = normalizeSettings(norm.input)]
    /\ UNCHANGED <<authVars, other, ver, now, ticks, quota, db, store, req,
                   run, prev, cron, resp>>

\* normalizeSettings is called on its own result
normalizeAgain ==
    /\ norm.pc = "out"
    /\ norm' = [norm EXCEPT !.pc = "again",
                            !.again = normalizeSettings(norm.out)]
    /\ UNCHANGED <<authVars, other, ver, now, ticks, quota, db, store, req,
                   run, prev, cron, resp>>

(* --------------------------- specification ----------------------------- *)

\* an hour passes between two requests
Tick ==
    /\ Idle /\ ticks < MaxTicks
    /\ now' = now + 1 /\ ticks' = ticks + 1
    /\ UNCHANGED <<authVars, norm, other, ver, quota, db, store, req, run, prev, cron, resp>>

NoReq == SaveReq(Ghost, <<>>, FALSE, FALSE)

InitCommon ==
    /\ ver \in Versions
    /\ now = Now0
    /\ ticks = 0
    /\ db = [u \in Users |-> <<>>]
    /\ req = [NoReq EXCEPT !.kind = "none"]
    /\ run = NoRun
    /\ prev = NoPrev
    /\ cron = NoCron
    /\ resp = NoResp
    /\ other = NoRun
    /\ norm = NoNorm
    /\ client = NoClient
    /\ listeners = <<>>
    /\ tokens = [u \in Users |-> Token(u, 0)]
    /\ procs = [u \in Users |-> NoProc]
    /\ calls = {}
    /\ records = <<>>
    /\ logins = [c \in Logins |-> NoLogin]

\* the settings submitted in Spec: location A over the last 7 days and
\* unreplied reviews only, enabled (SetA) or not (SetAoff), and location B
\* over all reviews, replied or not (SetB)
SetA == Setting("locA", TRUE, "7days", "unreplied_only", "warm")
SetAoff == Setting("locA", FALSE, "7days", "unreplied_only", "warm")
SetB == Setting("locB", TRUE, "all", "rewrite_all", "warm")

SettingLists ==
    {<<>>, <<SetA>>, <<SetAoff>>, <<SetB>>, <<SetA, SetB>>, <<SetB, SetA>>}

\* the lists submitted with an id no user has
GhostLists == {<<>>, <<SetA>>}

\* the reviews of the Review Source in Spec: at location A one of 7 or 10
\* days, with or without a reply, and one of 2 days without a reply; at
\* location B one of 40 days, with or without a reply
InitStores ==
    {[locA |-> <<Review("r1", Now0 - a1, b1), Review("r2", Now0 - 48, FALSE)>>,
      locB |-> <<Review("r3", Now0 - 960, b3)>>] :
        a1 \in {168, 240}, b1 \in BOOLEAN, b3 \in BOOLEAN}

Init ==
    /\ InitCommon
    /\ quota = MaxRequests
    /\ store \in InitStores

Request(u, l) ==
    \/ saveAndRun_S1(u, l)
    \/ saveAndRun_S2(u, l)
    \/ saveAndRun_P0(u, l)
    \/ processAutomation_P1(u, l)

RunStep ==
    \/ Fetch_S1 \/ Generate_S1 \/ Publish_S1 \/ saveAndRun_S1_resume
    \/ Fetch_S2 \/ Generate_S2 \/ Publish_S2
    \/ Fetch_P0 \/ Generate_P0 \/ Publish_P0 \/ saveAndRun_P0_resume
    \/ Fetch_P1 \/ Generate_P1

CronStart == cron_S1 \/ cron_S2 \/ cron_P0

CronResume == cron_S1_resume \/ cron_S2_resume \/ cron_P0_resume

Next ==
    \/ \E u \in Users, l \in SettingLists : Request(u, l)
    \/ \E l \in GhostLists : Request(Ghost, l)
    \/ RunStep
    \/ CronStart
    \/ CronResume

Spec == Init /\ [][Next]_vars

\* the settings submitted in SpecElig: location A enabled, under every time
\* filter and reply scope, among them an unrecognised time filter and the
\* reply scope as S1 spells it, and a list with the same location twice
TimeFilters == {"7days", "14days", "30days", "all", "weekly"}
ReplyScopes == {"unreplied_only", "rewrite_all", "Unreplied Only"}

\* a list that names location A twice
SetAall == Setting("locA", TRUE, "all", "rewrite_all", "warm")
TwiceA == <<SetAall, SetAall>>

EligLists ==
    {<<Setting("locA", TRUE, tf, sc, "warm")>> :
        tf \in TimeFilters, sc \in ReplyScopes} \cup {TwiceA}

\* the ages of a review in SpecElig, in hours: 2, 7, 14, 30 and 40 days
EligAges == {48, 168, 336, 720, 960}

InitElig ==
    /\ InitCommon
    /\ quota = MaxEligRequests
    /\ store \in {[locA |-> <<Review("r1", Now0 - a, b)>>, locB |-> <<>>] :
                     a \in EligAges, b \in BOOLEAN}

NextElig ==
    \/ \E l \in EligLists : Request("u1", l)
    \/ RunStep
    \/ Tick

\* one user, one location with one review, every filter and every age
SpecElig == InitElig /\ [][NextElig]_vars

InitCred ==
    /\ InitCommon /\ ver \in {"S1", "S2"}
    /\ quota = 0
    /\ store = [l \in Locations |-> <<>>]

NextCred ==
    \/ \E u \in Users, kind \in Kinds : getAuthClient(u, kind)
    \/ \E u \in Users : call_S1(u)
    \/ tokensEvent
    \/ \E u \in Users, kind \in Kinds : getGoogleClient(u, kind)
    \/ \E u \in Users : call_S2(u)

\* two users whose invocations of runAutomation and of GET /api/locations
\* interleave at their awaits
SpecCred == InitCred /\ [][NextCred]_vars

InitLogin ==
    /\ InitCommon /\ ver \in {"S1", "S2", "P0"}
    /\ quota = 0
    /\ store = [l \in Locations |-> <<>>]

NextLogin ==
    \/ \E c \in Logins, gid \in Accounts : callback(c, gid)
    \/ \E c \in Logins : callback_write(c)

\* login callbacks of two accounts, two of them in flight at a time
SpecLogin == InitLogin /\ [][NextLogin]_vars

InitOverlap ==
    /\ InitCommon /\ ver = "S2"
    /\ quota = MaxRequests
    /\ store \in InitStores

NextOverlap ==
    \/ \E l \in {<<SetA>>, <<SetA, SetB>>} : saveAndRun_S2("u1", l)
    \/ Fetch_S2 \/ Generate_S2 \/ Publish_S2
    \/ Yield

\* S2: the save-and-run requests of one user, the run of one still in
\* progress when the next arrives
SpecOverlap == InitOverlap /\ [][NextOverlap]_vars

\* the entries submitted in SpecNorm: well-formed ones, one with an
\* untrimmed tone, one with unrecognised values and a blank tone, one with
\* an empty locationId, one with a locationId only, one without a
\* locationId, and null
NormEntries ==
    {SetA, SetB,
     Setting("locA", TRUE, "30days", "rewrite_all", " warm "),
     Setting("locB", FALSE, "weekly", "Unreplied Only", "  "),
     Setting("", TRUE, "all", "rewrite_all", "warm"),
     [locationId |-> "locA"],
     [isEnabled |-> TRUE, tone |-> "warm"],
     NullEntry}

\* the lists of at most MaxLen of them
NormLists ==
    UNION {[1..n -> NormEntries] : n \in 0..MaxLen}

InitNorm ==
    /\ InitCommon /\ ver = "S2"
    /\ quota = 0
    /\ store = [l \in Locations |-> <<>>]

\* a list, or null, is submitted
submit ==
    /\ norm.pc = "none"
    /\ \E l \in NormLists \cup {JNull} :
          norm' = [norm EXCEPT !.pc = "in", !.input = l]
    /\ UNCHANGED <<authVars, other, ver, now, ticks, quota, db, store, req,
                   run, prev, cron, resp>>

NextNorm == submit \/ normalize \/ normalizeAgain

\* normalizeSettings on every list of NormLists and on null
SpecNorm == InitNorm /\ [][NextNorm]_vars

(* ------------------------------ claims --------------------------------- *)

Events == Range(run.trace)

\* the threshold the specification gives a bounded time filter, in hours
WindowHours(tf) ==
    CASE tf = "7days" -> 7 * 24
      [] tf = "14days" -> 14 * 24
      [] tf = "30days" -> 30 * 24

BoundedFilters == {"7days", "14days", "30days"}

\* nothing is reported that was not published
ReportedArePublished ==
    \A i \in DOMAIN run.report :
        \E e \in Events : /\ e.op = "pub" /\ e.out = "ok"
                          /\ e.rid = run.report[i].rid
                          /\ e.loc = run.report[i].loc

\* C1: under a setting whose timeFilter is 7days, 14days or 30days the runs
\* of S2 and P0 make no generation or publish call, and no report entry, for
\* a review older than 7, 14 or 30 days, and skip no review as old whose age
\* is at most the threshold.
C1_TimeWindow ==
    ver \in {"S2", "P0"} =>
        /\ \A e \in Events :
             e.tf \in BoundedFilters =>
                /\ e.op \in {"gen", "pub"} => e.age <= WindowHours(e.tf)
                /\ (e.op = "skip" /\ e.out = "old") => e.age > WindowHours(e.tf)
        /\ ReportedArePublished

\* C1 witness: P0 has skipped a review older than 14 days under 14days, at
\* the end of the run
C1_Witness ==
    /\ ver = "P0" /\ run.pc = "end"
    /\ \E e \in Events : /\ e.op = "skip" /\ e.out = "old"
                         /\ e.tf = "14days" /\ e.age > 14 * 24

\* the run in progress is the run of the save request in req
RunOfRequest == req.kind = "save" /\ req.uid = run.user /\ run.pc # "none"

\* C2: when the timeFilter submitted to save-and-run for a location is all
\* or an unrecognised value, the run that follows skips no review of that
\* location because of its age.
C2_FailOpen ==
    (ver \in {"S2", "P0"} /\ RunOfRequest) =>
        \A e \in Events :
            (e.op = "skip" /\ e.out = "old") =>
                \E i \in DOMAIN req.body :
                    /\ req.body[i].locationId = e.loc
                    /\ req.body[i].timeFilter \in BoundedFilters

\* the value of replyScope that stands for unreplied-only in a program
UnrepliedOnly(v) == IF v = "S1" THEN "Unreplied Only" ELSE "unreplied_only"

\* the review was too old for the event's time filter as the program read it
PastWindow(e) ==
    /\ ver # "S1"
    /\ e.tf \in BoundedFilters
    /\ e.age > WindowHours(e.tf)

\* every review of the page before the current one was skipped or generated for
ExaminedInOrder ==
    \A k \in 1..(run.ri - 1) :
        \E e \in Events : /\ e.si = run.si /\ e.rid = run.page[k].id
                          /\ e.op \in {"skip", "gen"}

\* C3: under replyScope unreplied-only the runs of S1, S2 and P0 make no
\* generation or publish call, and no report entry, for a review that
\* carries a reply, and skip a review without a reply only when it is past
\* the time window.
C3_UnrepliedOnly ==
    ver \in {"S1", "S2", "P0"} =>
        /\ \A e \in Events :
             e.scope = UnrepliedOnly(ver) =>
                /\ e.op \in {"gen", "pub"} => ~e.hadReply
                /\ (e.op = "skip" /\ ~e.hadReply) => (e.out = "old" /\ PastWindow(e))
        /\ ReportedArePublished
        /\ ExaminedInOrder

\* C3 witness: a run of S1 under its unreplied-only scope has skipped a
\* replied review, and a run has ended
C3_Witness ==
    /\ ver = "S1" /\ run.pc = "end"
    /\ \E e \in Events : /\ e.scope = "Unreplied Only" /\ e.op = "skip"
                         /\ e.out = "replied" /\ e.hadReply

\* C4: under replyScope rewrite-all no review is skipped for carrying a
\* reply, and once a run has ended with every call answered, every review
\* it generated a reply for has been published to.
C4_RewriteAll ==
    ver \in {"S2", "P0", "P1"} =>
        /\ \A e \in Events :
             e.scope = "rewrite_all" => ~(e.op = "skip" /\ e.out = "replied")
        /\ (run.pc = "end" /\ run.status = "done" /\ Clean(run)) =>
             \A e \in Events :
                (e.scope = "rewrite_all" /\ e.op = "gen") =>
                    \E f \in Events : f.op = "pub" /\ f.si = e.si /\ f.rid = e.rid

\* every enabled setting of the list is unreplied-only
AllUnrepliedOnly(list) ==
    \A i \in DOMAIN list :
        list[i].isEnabled => list[i].replyScope = "unreplied_only"

NoPublish ==
    /\ \A e \in Events : e.op # "pub"
    /\ run.pc # "publish"
    /\ run.report = <<>>

FetchedSettings == {e.si : e \in {f \in Events : f.op = "fetch"}}

EnabledSettings == {i \in DOMAIN run.list : run.list[i].isEnabled}

\* C6: a run of S1, S2 or P0 in which a fetch threw, and no other call did,
\* ends having fetched the reviews of every enabled setting of the list.
C6_LocationIsolation ==
    (/\ ver \in {"S1", "S2", "P0"} /\ run.pc = "end"
     /\ \E e \in Events : e.op = "fetch" /\ e.out = Throw
     /\ \A e \in Events : e.out = Throw => e.op = "fetch")
        => FetchedSettings = EnabledSettings

\* C7: a run of S2 or P0 in which a generation or publish call threw ends
\* having fetched every enabled setting and having examined (skipped or
\* generated for) every review of every page it fetched.
C7_ReviewIsolation ==
    (/\ ver \in {"S2", "P0"} /\ run.pc = "end"
     /\ \A e \in Events : e.out = Throw => e.op \in {"gen", "pub"})
        => /\ FetchedSettings = EnabledSettings
           /\ \A e \in Events :
                (e.op = "fetch" /\ e.out = "ok") =>
                    \A k \in DOMAIN FetchPage(e.loc) :
                        \E f \in Events :
                            /\ f.si = e.si
                            /\ f.rid = FetchPage(e.loc)[k].id
                            /\ f.op \in {"skip", "gen"}

\* C8: after a generation that returned a text empty after trimming, the
\* runs of S1, S2 and P0 make no publish call and no report entry for that
\* review.
C8_EmptyGeneration ==
    ver \in {"S1", "S2", "P0"} =>
        \A e \in Events :
            (e.op = "gen" /\ e.out = "empty") =>
                /\ ~(run.pc = "publish" /\ run.si = e.si
                        /\ CurReview(run).id = e.rid)
                /\ \A f \in Events :
                      ~(f.op = "pub" /\ f.si = e.si /\ f.rid = e.rid)
                /\ \A i \in DOMAIN run.report :
                      ~(run.report[i].rid = e.rid /\ run.report[i].loc = e.loc)

\* C9: a save-and-run request with an id no user has is answered 401, ends
\* in no unhandled exception, writes no settings and starts no run.
C9_UnknownUser ==
    [][(quota' # quota /\ req'.kind = "save" /\ req'.uid \notin Users) =>
          /\ resp'.code = 401
          /\ ~req'.unhandled
          /\ db' = db /\ store' = store /\ run' = run]_vars

\* C10: a cron request that is over has run exactly the users with an
\* enabled setting, each once, whether or not a run failed, and answers
\* with their number.
C10_BulkRun ==
    (req.kind = "cron" /\ cron.status \in {"done", "crashed"}) =>
        /\ Range(cron.invoked) = {u \in Users : HasEnabled(db[u])}
        /\ Len(cron.invoked) = Cardinality(Range(cron.invoked))
        /\ resp.count = Cardinality({u \in Users : HasEnabled(db[u])})

\* the number of publish calls of the run
PubCalls == Cardinality({i \in DOMAIN run.trace : run.trace[i].op = "pub"})

\* the run met the reviews of the two-location scenario: at A one of 10
\* days and one of 2 days without a reply, at B one of 40 days with a reply
ScenarioSeen ==
    /\ run.list = <<SetA, SetB>>
    /\ \E e \in Events : e.rid = "r1" /\ e.loc = "locA" /\ e.age = 240
    /\ \E e \in Events : e.rid = "r2" /\ e.loc = "locA" /\ e.age = 48
    /\ \E e \in Events : e.rid = "r3" /\ e.loc = "locB" /\ e.age = 960
    /\ \A e \in Events : e.rid = "r2" /\ e.op \in {"skip", "gen"} => ~e.hadReply
    /\ \A e \in Events : e.rid = "r3" /\ e.op \in {"skip", "gen"} => e.hadReply

\* C11: a run of P0 over settings A (7days, unreplied-only) and B (all,
\* rewrite-all) that met the scenario's reviews, every call answered with a
\* non-empty text, ends with exactly two publish calls and the report
\* <<new reply for A's 2-day-old review, updated reply for B's review>>.
C11_TwoLocations ==
    (ver = "P0" /\ run.pc = "end" /\ Clean(run) /\ ScenarioSeen) =>
        /\ run.report =
              << [loc |-> "locA", rid |-> "r2", details |-> "New reply"],
                 [loc |-> "locB", rid |-> "r3",
                  details |-> "Updated existing reply"] >>
        /\ PubCalls = 2

\* C11 witness: such a run of P0 has ended with two report entries
C11_Witness ==
    /\ ver = "P0" /\ run.pc = "end" /\ Clean(run) /\ ScenarioSeen
    /\ Len(run.report) = 2 /\ req.kind = "save" /\ ~req.open

\* C12: once a save-and-run request of a known user has been answered 200,
\* the run it started has ended and the answer carries that run's report.
C12_ReportReturned ==
    (/\ ver \in {"S1", "S2", "P0"}
     /\ req.kind = "save" /\ req.uid \in Users /\ resp.code = 200)
        => /\ run.pc = "end" /\ run.user = req.uid
           /\ resp.body = "report"
           /\ resp.report = run.report

\* C13: in S2 and P0 a save-and-run request of a known user leaves as that
\* user's stored settings exactly the list it submitted and changes no
\* other user's settings; no other step changes stored settings.
C13_WholeListReplace ==
    [][(ver \in {"S2", "P0"}) =>
          (IF quota' # quota /\ req'.kind = "save" /\ req'.uid \in Users
           THEN db' = [db EXCEPT ![req'.uid] = req'.body]
           ELSE db' = db)]_vars

\* C14: in S2 and P0 no two stored settings of a user have the same
\* location identifier.
C14_UniqueLocations ==
    ver \in {"S2", "P0"} =>
        \A u \in Users : \A i, j \in DOMAIN db[u] :
            i # j => db[u][i].locationId # db[u][j].locationId

\* the place of review rid in the Review Source's page of location loc
Pos(loc, rid) ==
    CHOOSE k \in DOMAIN store[loc] : store[loc][k].id = rid

\* the publish calls of the run that were answered, in the order made
OkPubs == SelectSeq(run.trace, LAMBDA e : e.op = "pub" /\ e.out = "ok")

\* the fetch calls the run made for the setting at index i
Fetches(i) == {k \in DOMAIN run.trace :
                 run.trace[k].op = "fetch" /\ run.trace[k].si = i}

\* settings are taken in list order and a location's reviews in page order
InListAndPageOrder ==
    \A i, j \in DOMAIN run.trace :
        i < j =>
            /\ run.trace[i].si <= run.trace[j].si
            /\ (/\ run.trace[i].si = run.trace[j].si
                /\ run.trace[i].rid # NoRid /\ run.trace[j].rid # NoRid)
                  => Pos(run.trace[i].loc, run.trace[i].rid)
                        <= Pos(run.trace[j].loc, run.trace[j].rid)

\* no fetch for a disabled setting, never two for a setting, and one for
\* every enabled setting once the run is over
OneFetchPerEnabled ==
    \A i \in DOMAIN run.list :
        /\ ~run.list[i].isEnabled => Fetches(i) = {}
        /\ Cardinality(Fetches(i)) <= 1
        /\ (run.pc = "end" /\ run.list[i].isEnabled) => Fetches(i) # {}

\* no generation or publish call for a review the filter excludes
NoCallForIneligible ==
    \A e \in Events :
        e.op \in {"gen", "pub"} =>
            /\ ~(e.tf \in BoundedFilters /\ e.age > WindowHours(e.tf))
            /\ ~(e.scope = "unreplied_only" /\ e.hadReply)

\* a publish call follows a generation call for the same review
PublishAfterGenerate ==
    \A j \in DOMAIN run.trace :
        run.trace[j].op = "pub" =>
            \E i \in 1..(j - 1) :
                /\ run.trace[i].op = "gen"
                /\ run.trace[i].si = run.trace[j].si
                /\ run.trace[i].rid = run.trace[j].rid

\* the report holds the answered publish calls, in their order
ReportInPublishOrder ==
    /\ Len(run.report) <= Len(OkPubs)
    /\ ver = "P0" => Len(run.report) = Len(OkPubs)
    /\ \A i \in DOMAIN run.report :
          /\ run.report[i].rid = OkPubs[i].rid
          /\ run.report[i].loc = OkPubs[i].loc

\* C15: a run of S2 or P0 takes the enabled settings in list order and the
\* reviews in page order, fetches once for every enabled setting and never
\* for a disabled one, makes no call for an ineligible review, publishes
\* only after generating for the same review, and reports the answered
\* publish calls in their order.
C15_RunOrder ==
    (ver \in {"S2", "P0"} /\ run.pc # "none") =>
        /\ InListAndPageOrder
        /\ OneFetchPerEnabled
        /\ NoCallForIneligible
        /\ PublishAfterGenerate
        /\ ReportInPublishOrder

\* C16: every call made with an OAuth client carries a token of the user
\* whose invocation made the call.
C16_NoCredentialBleed ==
    \A c \in calls : c.token.acct = c.by

\* a "tokens" event changes the stored tokens of no user but the one whose
\* credentials the client holds
RefreshOwnUserOnly ==
    [][\A u \in Users : tokens'[u] # tokens[u] => u = client.user]_vars

\* there are never more listeners than users
ListenersBounded == Len(listeners) <= Cardinality(Users)

\* C17: a "tokens" event changes the stored tokens only of the user whose
\* credentials are set on the client, and the number of "tokens" listeners
\* stays within the number of users however many getAuthClient calls are made.
C17_RefreshOwnUser == RefreshOwnUserOnly /\ []ListenersBounded

\* no two User records have the same account id
OneRecordPerAccount ==
    \A i, j \in DOMAIN records :
        i # j => records[i].googleId # records[j].googleId

\* a callback that found a record of its account adds no record
ExistingAccountUpdated ==
    [][\A c \in Logins :
         (logins[c].pc = "write" /\ logins'[c].pc = "done"
            /\ logins[c].found # 0)
           => /\ Len(records') = Len(records)
              /\ records'[logins[c].found].token = c]_vars

\* C18: at most one User record exists for an account id, whatever the
\* interleaving of login callbacks, and a login of an account that has a
\* record updates its tokens and creates no record.
C18_OneRecordPerAccount == []OneRecordPerAccount /\ ExistingAccountUpdated

\* the answered publish calls of run r to review rid under unreplied-only
PubsTo(r, rid) ==
    {i \in DOMAIN r.trace :
        /\ r.trace[i].op = "pub" /\ r.trace[i].out = "ok"
        /\ r.trace[i].rid = rid /\ r.trace[i].scope = "unreplied_only"}

\* C19: the runs of S2 in progress together publish at most once, in
\* total, to a review under replyScope unreplied-only.
C19_AtMostOneReply ==
    ver = "S2" =>
        \A rid \in {"r1", "r2", "r3"} :
            Cardinality(PubsTo(run, rid)) + Cardinality(PubsTo(other, rid)) <= 1

\* the entries of the submitted list that have a non-empty locationId
WithLocationId == SelectSeq(orEmpty(norm.input), hasLocationId)

\* an entry of the form the schema admits
WellFormed(s) ==
    /\ DOMAIN s = {"locationId", "timeFilter", "replyScope", "tone", "isEnabled"}
    /\ s.locationId # ""
    /\ s.timeFilter \in {"7days", "14days", "30days", "all"}
    /\ s.replyScope \in {"unreplied_only", "rewrite_all"}
    /\ s.tone # "" /\ trim(s.tone) = s.tone
    /\ s.isEnabled \in BOOLEAN

\* what entry e submitted of a recognised value, result s has
Preserved(e, s) ==
    /\ s.locationId = e.locationId
    /\ ("timeFilter" \in DOMAIN e
          /\ e.timeFilter \in {"7days", "14days", "30days", "all"})
            => s.timeFilter = e.timeFilter
    /\ ("replyScope" \in DOMAIN e
          /\ e.replyScope \in {"unreplied_only", "rewrite_all"})
            => s.replyScope = e.replyScope
    /\ ("tone" \in DOMAIN e /\ e.tone # "" /\ trim(e.tone) = e.tone)
            => s.tone = e.tone
    /\ "isEnabled" \in DOMAIN e => s.isEnabled = e.isEnabled

\* C20: the result of normalizeSettings has, in the order submitted, one
\* entry for each submitted entry with a non-empty locationId and no
\* other; every entry of it is well-formed and keeps the recognised values
\* submitted; and normalizeSettings maps the result to itself.
C20_NormalizeWellFormed ==
    /\ norm.pc \in {"out", "again"} =>
          /\ Len(norm.out) = Len(WithLocationId)
          /\ \A i \in DOMAIN norm.out :
                /\ WellFormed(norm.out[i])
                /\ Preserved(WithLocationId[i], norm.out[i])
    /\ norm.pc = "again" => norm.again = norm.out

\* C20 witness: a list with a null entry, an entry of unrecognised values
\* and an untrimmed tone went through normalizeSettings twice
C20_Witness ==
    /\ norm.pc = "again" /\ Len(orEmpty(norm.input)) = 2 /\ Len(norm.out) = 1
    /\ norm.input[1] = NullEntry
    /\ norm.input[2] = Setting("locB", FALSE, "weekly", "Unreplied Only", "  ")
    /\ norm.out[1].tone = DefaultTone

====
